---- MODULE Spec2Model ----
(***************************************************************************)
(* Shortify Link: short-code allocation (LinkShortenerService.create_link), *)
(* the redirect handler (RedirectView.get), click recording                 *)
(* (ClickTrackerService.record_click) and administrative deletion           *)
(* (DeleteLinkView), over the two tables links_shortlink and links_click.   *)
(*                                                                          *)
(* Every request runs concurrently with every other one; the only shared    *)
(* state is the database.  A step of the model is one database statement    *)
(* (or a purely local computation glued to the statement that follows it).  *)
(* `links' and `clicks' are the COMMITTED tables; the writes of an open     *)
(* transaction live in the state of the request that opened it until its    *)
(* commit step.                                                             *)
(***************************************************************************)
EXTENDS Integers, FiniteSets, Sequences, TLC

\* ------------------------------------------------------------------ bounds
MaxLinkId == 2        \* ids handed out to ShortLink rows over a run
MaxClickId == 2       \* ids handed out to Click rows over a run
MaxHeaderLen == 3     \* characters of an X-Forwarded-For header value

\* ------------------------------------------------------- program constants
max_retries == 10     \* services.py:59
HTTP_FOUND == 302     \* redirect(..., permanent=False)
HTTP_NOT_FOUND == 404 \* get_object_or_404

\* ------------------------------------------------------------- processes
Creators == {"c1", "c2"}      \* concurrent POST / requests (create_link)
Handlers == {"h1", "h2"}      \* concurrent GET /<short_code> requests

\* ------------------------------------------------------------------ URLs
\* A URL string is modelled by its three parts.  Each part is a token; the
\* substring tests of the code are evaluated on the tokens through Lower and
\* Fragments below.
MkUrl(s, h, p) == [scheme |-> s, host |-> h, path |-> p]

NoUrl == MkUrl("", "", "")

ValidUrls ==
    { MkUrl("https://", "example.com", "a"),
      MkUrl("http://",  "example.org", "short_code") }

RejectedUrls ==
    { MkUrl("ftp://",   "example.com", "a"),
      MkUrl("HTTP://",  "example.com", "a"),
      MkUrl("http://",  "LocalHost",   "x"),
      MkUrl("https://", "127.0.0.1",   "x"),
      MkUrl("https://", "example.com", "localhost"),
      MkUrl("https://", "exa mple",    "a") }

Urls == ValidUrls \cup RejectedUrls

\* str.lower() on a token
Lower(tok) == IF tok = "LocalHost" THEN "localhost"
              ELSE IF tok = "HTTP://" THEN "http://"
              ELSE tok

\* the substrings of a token that the code looks for
Fragments(tok) == {tok}

\* `needle in url' (Python substring test over the whole string)
UrlContains(u, needle) ==
    \E part \in {u.scheme, u.host, u.path} : needle \in Fragments(part)

\* `needle in url.lower()'
LowerUrlContains(u, needle) ==
    \E part \in {u.scheme, u.host, u.path} : needle \in Fragments(Lower(part))

\* url.startswith(("http://", "https://")): case-sensitive prefix test
StartsWithHttp(u) == u.scheme \in {"http://", "https://"}

\* django URLValidator: rejects a host that is not a domain name or address
URLValidator(u) == u.host # "exa mple"

\* "localhost" in url, without lower() (as in models.py:51)
validate_url_CaseSensitive(u) ==
    /\ StartsWithHttp(u)
    /\ ~(UrlContains(u, "localhost") \/ UrlContains(u, "127.0.0.1"))
    /\ URLValidator(u)

\* utils.validate_url: TRUE when it returns, FALSE when it raises
\* ValidationError
validate_url(u) ==
    /\ StartsWithHttp(u)
    /\ ~(LowerUrlContains(u, "localhost") \/ UrlContains(u, "127.0.0.1"))
    /\ URLValidator(u)

\* ------------------------------------------------------------ short codes
\* generate_short_code draws from 62^6 strings; two of them stand for the
\* whole space so that collisions and exhaustion happen.
Codes == {"aaaaaa", "bbbbbb"}

\* a well-formed code that generate_short_code never drew
UnissuedCode == "zzzzzz"

RequestCodes == Codes \cup {UnissuedCode}

generate_short_code == Codes

\* -------------------------------------------------------- request headers
\* A header value is a string of characters: "a" stands for the characters
\* of an address, " " for whitespace, "," for the separator of the chain.
Chars == {"a", " ", ","}

Strings(n) == UNION {[1..k -> Chars] : k \in 0..n}

\* a Python str, or None (present = FALSE)
Str(s) == [present |-> TRUE, value |-> s]

None == [present |-> FALSE, value |-> <<>>]

\* request.META: the X-Forwarded-For header and the peer address
MkMeta(x, r) == [HTTP_X_FORWARDED_FOR |-> x, REMOTE_ADDR |-> r]

NoMeta == MkMeta(None, None)

\* a request that came straight from the client
DirectMeta == MkMeta(None, Str(<<"a">>))

Metas ==
    {MkMeta(x, r) :
        x \in {None} \cup {Str(s) : s \in Strings(MaxHeaderLen)},
        r \in {Str(<<"a", "a">>)}}

Least(S) == CHOOSE i \in S : \A j \in S : i <= j

Greatest(S) == CHOOSE i \in S : \A j \in S : j <= i

\* s.split(",")[0]
SplitFirst(s) ==
    LET commas == {i \in 1..Len(s) : s[i] = ","}
    IN  IF commas = {} THEN s ELSE SubSeq(s, 1, Least(commas) - 1)

\* s.split(",")[-1]
SplitLast(s) ==
    LET commas == {i \in 1..Len(s) : s[i] = ","}
    IN  IF commas = {} THEN s ELSE SubSeq(s, Greatest(commas) + 1, Len(s))

\* s.strip()
Strip(s) ==
    LET solid == {i \in 1..Len(s) : s[i] # " "}
    IN  IF solid = {} THEN <<>> ELSE SubSeq(s, Least(solid), Greatest(solid))

\* bool(x) of a str or None
Truthy(x) == x.present /\ x.value # <<>>

\* the last entry of the chain (the nearest proxy) is taken
ip_address_LastEntry(meta) ==
    IF Truthy(meta.HTTP_X_FORWARDED_FOR)
       THEN Str(Strip(SplitLast(meta.HTTP_X_FORWARDED_FOR.value)))
       ELSE meta.REMOTE_ADDR

\* services.py:178-184: metadata["ip_address"] of _extract_metadata
ip_address(meta) ==
    IF Truthy(meta.HTTP_X_FORWARDED_FOR)
       THEN Str(Strip(SplitFirst(meta.HTTP_X_FORWARDED_FOR.value)))
       ELSE meta.REMOTE_ADDR

\* ------------------------------------------------------------------- rows
MkLink(i, u, c, n) ==
    [id |-> i, original_url |-> u, short_code |-> c, clicks_count |-> n]

NoLink == MkLink(0, NoUrl, "", 0)

MkClick(i, l, ip) == [id |-> i, short_link |-> l, ip_address |-> ip]

NoClick == MkClick(0, 0, None)

\* what a call returned or raised
MkRet(k, l) == [kind |-> k, link |-> l]

NoRet == MkRet("none", NoLink)

\* an HTTP response: status and Location header
MkResponse(st, loc) == [status |-> st, location |-> loc]

NoResponse == MkResponse(0, NoUrl)

VARIABLES
    links,        \* committed links_shortlink rows
    clicks,       \* committed links_click rows
    nextLinkId,   \* links_shortlink id sequence
    nextClickId,  \* links_click id sequence
    cpc,          \* create_link: position of each caller
    curl,         \* create_link: original_url argument
    attempt,      \* create_link: insert attempts made by the current call
    cchecked,     \* create_link: the existence query of the current call ran
    cwrote,       \* create_link: the current call inserted a row
    curlviol,     \* create_link: an attempt of the current call failed on original_url
    cret,         \* create_link: outcome of the call
    hpc,          \* RedirectView.get: position of each request
    hcode,        \* RedirectView.get: short_code of the request
    hlink,        \* RedirectView.get: the ShortLink instance it looked up
    hmeta,        \* RedirectView.get: request.META of the request
    hclick,       \* record_click: Click inserted in the open transaction
    hlock,        \* record_click: the open transaction holds the row lock of the link
    hcalls,       \* RedirectView.get: record_click calls made by the request
    hrec,         \* record_click: what it returned ("Click", "None") or "raised"
    hresp,        \* RedirectView.get: response of the request
    returned,     \* Click instances record_click returned, for the links that exist
    dpc,          \* DeleteLinkView: position
    dlink,        \* DeleteLinkView: the object being deleted
    ddel          \* DeleteLinkView: Click rows deleted in the open transaction

dbvars == <<links, clicks, nextLinkId, nextClickId>>
cvars == <<cpc, curl, attempt, cchecked, cwrote, curlviol, cret>>
hvars == <<hpc, hcode, hlink, hmeta, hclick, hlock, hcalls, hrec, hresp, returned>>
dvars == <<dpc, dlink, ddel>>
vars == <<dbvars, cvars, hvars, dvars>>

\* ------------------------------------------------------------- row locks
\* the link row whose delete is pending in the deleter's open transaction
DeleterLocks(i) == dpc = "commit" /\ dlink.id = i

\* the link row is locked by the UPDATE of some record_click transaction
HandlerLocks(i) == \E h \in Handlers : hlock[h] /\ hlink[h].id = i

ByUrl(u) == {l \in links : l.original_url = u}
ByCode(c) == {l \in links : l.short_code = c}
ByPk(i) == {l \in links : l.id = i}

InFlightCreates == Cardinality({p \in Creators : cpc[p] # "idle"})
InFlightClicks == Cardinality({h \in Handlers : hpc[h] = "record"})

\* Steps that read or write nothing another request can see are taken at
\* once: validate_url before the existence query ("check"), the Click insert
\* of a still open transaction after the lookup ("record"), the collection
\* of the Click rows after get_object ("clicks"), and the delivery of an
\* outcome ("done").  Such a step commutes with every step of the other
\* requests, so the others wait for it.
Quiet ==
    /\ \A p \in Creators : cpc[p] \notin {"check", "done"}
    /\ \A h \in Handlers : hpc[h] \notin {"record", "done"}
    /\ dpc # "clicks"

Init ==
    /\ links = {}
    /\ clicks = {}
    /\ nextLinkId = 1
    /\ nextClickId = 1
    /\ cpc = [p \in Creators |-> "idle"]
    /\ curl = [p \in Creators |-> NoUrl]
    /\ attempt = [p \in Creators |-> 0]
    /\ cchecked = [p \in Creators |-> FALSE]
    /\ cwrote = [p \in Creators |-> FALSE]
    /\ curlviol = [p \in Creators |-> FALSE]
    /\ cret = [p \in Creators |-> NoRet]
    /\ hpc = [h \in Handlers |-> "idle"]
    /\ hcode = [h \in Handlers |-> ""]
    /\ hlink = [h \in Handlers |-> NoLink]
    /\ hmeta = [h \in Handlers |-> NoMeta]
    /\ hclick = [h \in Handlers |-> NoClick]
    /\ hlock = [h \in Handlers |-> FALSE]
    /\ hcalls = [h \in Handlers |-> 0]
    /\ hrec = [h \in Handlers |-> "none"]
    /\ hresp = [h \in Handlers |-> NoResponse]
    /\ returned = {}
    /\ dpc = "idle"
    /\ dlink = NoLink
    /\ ddel = {}

\* ------------------------------------------------------------ create_link
\* services.py:42-45, 92-94: the call starts and validate_url runs; a
\* ValidationError is logged and re-raised before any query.
CreateCall(p, u) ==
    /\ Quiet
    /\ cpc[p] = "idle"
    /\ nextLinkId + InFlightCreates <= MaxLinkId
    /\ curl' = [curl EXCEPT ![p] = u]
    /\ IF validate_url(u)
          THEN /\ cpc' = [cpc EXCEPT ![p] = "check"]
               /\ cret' = cret
          ELSE /\ cpc' = [cpc EXCEPT ![p] = "done"]
               /\ cret' = [cret EXCEPT ![p] = MkRet("ValidationError", NoLink)]
    /\ UNCHANGED <<dbvars, attempt, cchecked, cwrote, curlviol, hvars, dvars>>

\* the existence query filters on a field that never matches
ExistingLink_NoDedup(u) == NoLink

\* services.py:46-49: ShortLink.objects.filter(original_url=...).first();
\* NoLink stands for None
ExistingLink(u) == IF ByUrl(u) = {} THEN NoLink ELSE CHOOSE l \in ByUrl(u) : TRUE

\* services.py:46-56: the existence query; an existing row is returned as is
CreateCheck(p) ==
    /\ cpc[p] = "check"
    /\ cchecked' = [cchecked EXCEPT ![p] = TRUE]
    /\ IF ExistingLink(curl[p]) # NoLink
          THEN /\ cpc' = [cpc EXCEPT ![p] = "done"]
               /\ cret' = [cret EXCEPT ![p] = MkRet("link", ExistingLink(curl[p]))]
          ELSE /\ cpc' = [cpc EXCEPT ![p] = "insert"]
               /\ cret' = cret
    /\ UNCHANGED <<dbvars, curl, attempt, cwrote, curlviol, hvars, dvars>>

\* original_url declared without unique=True
Violations_CodeOnly(u, c) ==
    {k \in {"short_code"} : ByCode(c) # {}}

\* models.py:26-27: the unique constraints an INSERT of (u, c) violates
Violations(u, c) ==
    {k \in {"original_url", "short_code"} :
        \/ k = "original_url" /\ ByUrl(u) # {}
        \/ k = "short_code" /\ ByCode(c) # {}}

\* the handler re-raises every IntegrityError
MentionsShortCode_Never(k, u, echo) == FALSE

\* services.py:77: "short_code" in str(e).  The text of an IntegrityError
\* names the violated constraint; PostgreSQL also echoes the offending key
\* value (echo), SQLite does not.
MentionsShortCode(k, u, echo) ==
    \/ k = "short_code"
    \/ echo /\ k = "original_url" /\ UrlContains(u, "short_code")

\* range(max_retries + 1)
LoopContinues_OffByOne(a) == a <= max_retries

\* services.py:60: for attempt in range(max_retries)
LoopContinues(a) == a < max_retries

\* services.py:60-85: one iteration of the retry loop: draw a code, INSERT in
\* its own transaction, return the row or handle the IntegrityError.
CreateAttempt(p) ==
    /\ Quiet
    /\ cpc[p] = "insert"
    /\ LoopContinues(attempt[p])
    /\ \E c \in generate_short_code :
         \* an INSERT waits for an open transaction that deletes a row
         \* holding the same key
         /\ \A l \in ByUrl(curl[p]) \cup ByCode(c) : ~DeleterLocks(l.id)
         /\ attempt' = [attempt EXCEPT ![p] = @ + 1]
         /\ IF Violations(curl[p], c) = {}
               THEN /\ links' = links \cup {MkLink(nextLinkId, curl[p], c, 0)}
                    /\ nextLinkId' = nextLinkId + 1
                    /\ cwrote' = [cwrote EXCEPT ![p] = TRUE]
                    /\ cpc' = [cpc EXCEPT ![p] = "done"]
                    /\ cret' = [cret EXCEPT ![p] =
                                  MkRet("link", MkLink(nextLinkId, curl[p], c, 0))]
                    /\ UNCHANGED curlviol
               ELSE \E k \in Violations(curl[p], c), echo \in BOOLEAN :
                    /\ UNCHANGED <<links, nextLinkId, cwrote>>
                    /\ curlviol' = [curlviol EXCEPT ![p] = @ \/ (k = "original_url")]
                    /\ IF MentionsShortCode(k, curl[p], echo)
                          THEN UNCHANGED <<cpc, cret>>
                          ELSE /\ cpc' = [cpc EXCEPT ![p] = "done"]
                               /\ cret' = [cret EXCEPT ![p] =
                                             MkRet("IntegrityError", NoLink)]
    /\ UNCHANGED <<clicks, nextClickId, curl, cchecked, hvars, dvars>>

\* services.py:87-90: the loop ran out; RuntimeError
CreateExhausted(p) ==
    /\ Quiet
    /\ cpc[p] = "insert"
    /\ ~LoopContinues(attempt[p])
    /\ cpc' = [cpc EXCEPT ![p] = "done"]
    /\ cret' = [cret EXCEPT ![p] = MkRet("RuntimeError", NoLink)]
    /\ UNCHANGED <<dbvars, curl, attempt, cchecked, cwrote, curlviol, hvars, dvars>>

\* views.py:61-82: CreateLinkView.post renders the outcome; the request ends
\* and its locals are gone
CreateReturn(p) ==
    /\ cpc[p] = "done"
    /\ cpc' = [cpc EXCEPT ![p] = "idle"]
    /\ curl' = [curl EXCEPT ![p] = NoUrl]
    /\ attempt' = [attempt EXCEPT ![p] = 0]
    /\ cchecked' = [cchecked EXCEPT ![p] = FALSE]
    /\ cwrote' = [cwrote EXCEPT ![p] = FALSE]
    /\ curlviol' = [curlviol EXCEPT ![p] = FALSE]
    /\ cret' = [cret EXCEPT ![p] = NoRet]
    /\ UNCHANGED <<dbvars, hvars, dvars>>

\* ---------------------------------------------------------- RedirectView.get
\* the lookup ignores the requested code
get_object_or_404_Any(c) == IF links = {} THEN NoLink ELSE CHOOSE l \in links : TRUE

\* views.py:104: get_object_or_404(ShortLink, short_code=short_code);
\* NoLink stands for Http404
get_object_or_404(c) == IF ByCode(c) = {} THEN NoLink ELSE CHOOSE l \in ByCode(c) : TRUE

\* the view lets a failed recording decide the response
RedirectResponse_Propagate(l, rec) ==
    IF rec = "Click" THEN MkResponse(HTTP_FOUND, l.original_url)
                     ELSE MkResponse(500, NoUrl)

\* views.py:107-114: redirect(short_link.original_url, permanent=False); the
\* outcome rec of record_click ("Click", "None", "raised") is discarded
RedirectResponse(l, rec) == MkResponse(HTTP_FOUND, l.original_url)

NotFoundResponse == MkResponse(HTTP_NOT_FOUND, NoUrl)

\* views.py:92-104: the request arrives with its headers m and the link is
\* looked up
RedirectGet(h, c, m) ==
    /\ Quiet
    /\ hpc[h] = "idle"
    /\ hcode' = [hcode EXCEPT ![h] = c]
    /\ hmeta' = [hmeta EXCEPT ![h] = m]
    /\ hlink' = [hlink EXCEPT ![h] = get_object_or_404(c)]
    /\ IF get_object_or_404(c) = NoLink
          THEN /\ hresp' = [hresp EXCEPT ![h] = NotFoundResponse]
               /\ hpc' = [hpc EXCEPT ![h] = "done"]
          ELSE /\ nextClickId + InFlightClicks <= MaxClickId
               /\ hresp' = hresp
               /\ hpc' = [hpc EXCEPT ![h] = "record"]
    /\ UNCHANGED <<dbvars, cvars, hclick, hlock, hcalls, hrec, returned, dvars>>

\* ------------------------------------------------------------ record_click
\* the except branch re-raises
RecordFailure_Reraise == "raised"

\* services.py:147-153: except Exception: log, return None
RecordFailure == "None"

\* short_link.clicks_count + 1 computed in application memory and saved
IncrementedCount_InMemory(row, inst) == inst.clicks_count + 1

\* services.py:137-139: clicks_count=F("clicks_count") + 1, evaluated by the
\* database on the current row; inst is the instance the caller holds
IncrementedCount(row, inst) == row.clicks_count + 1

\* the tables after the transaction of services.py:126-145 commits
CommitClicks(cs, c) == cs \cup {c}

\* the UPDATE has no filter(pk=...): every row is incremented
CommitLinks_NoFilter(ls, inst, locked) ==
    {IF locked
        THEN MkLink(l.id, l.original_url, l.short_code, IncrementedCount(l, inst))
        ELSE l : l \in ls}

\* services.py:137-139: the rows after filter(pk=short_link.pk).update(...)
CommitLinks(ls, inst, locked) ==
    {IF locked /\ l.id = inst.id
        THEN MkLink(l.id, l.original_url, l.short_code, IncrementedCount(l, inst))
        ELSE l : l \in ls}

\* no transaction: the Click insert is committed on its own
RollbackClicks_NoAtomic(cs, c) == cs \cup {c}

\* the table after the transaction rolled back: the pending Click is dropped
RollbackClicks(cs, c) == cs

\* record_click leaves through the except branch: the open transaction, if
\* any, rolls back; the view then answers (views.py:107-114)
RecordFails(h) ==
    /\ hrec' = [hrec EXCEPT ![h] = RecordFailure]
    /\ hresp' = [hresp EXCEPT ![h] = RedirectResponse(hlink[h], RecordFailure)]
    /\ hpc' = [hpc EXCEPT ![h] = "done"]
    /\ hclick' = [hclick EXCEPT ![h] = NoClick]
    /\ hlock' = [hlock EXCEPT ![h] = FALSE]
    /\ clicks' = IF hclick[h] = NoClick THEN clicks ELSE RollbackClicks(clicks, hclick[h])
    /\ UNCHANGED <<links, returned>>

\* views.py:108, services.py:122-134: record_click is called,
\* _extract_metadata runs, the transaction opens and the Click row is
\* inserted (ok = neither raised).  The foreign key is DEFERRABLE INITIALLY
\* DEFERRED and is checked at commit.
RecordInsert(h) ==
    /\ hpc[h] = "record"
    /\ hcalls' = [hcalls EXCEPT ![h] = @ + 1]
    /\ \E ok \in BOOLEAN :
         IF ok THEN /\ hclick' = [hclick EXCEPT ![h] = MkClick(nextClickId, hlink[h].id, ip_address(hmeta[h]))]
                    /\ nextClickId' = nextClickId + 1
                    /\ hpc' = [hpc EXCEPT ![h] = "update"]
                    /\ UNCHANGED <<hrec, hresp, hlock, links, clicks, returned>>
               ELSE /\ RecordFails(h)
                    /\ UNCHANGED nextClickId
    /\ UNCHANGED <<nextLinkId, cvars, hcode, hlink, hmeta, dvars>>

\* services.py:136-139: UPDATE links_shortlink SET clicks_count =
\* clicks_count + 1 WHERE id = pk.  The statement waits for the row lock; it
\* updates no row when the link is gone.
RecordUpdate(h) ==
    /\ Quiet
    /\ hpc[h] = "update"
    /\ ~DeleterLocks(hlink[h].id)
    /\ ~HandlerLocks(hlink[h].id)
    /\ \E ok \in BOOLEAN :
         IF ok THEN /\ hlock' = [hlock EXCEPT ![h] = ByPk(hlink[h].id) # {}]
                    /\ hpc' = [hpc EXCEPT ![h] = "commit"]
                    /\ UNCHANGED <<hrec, hresp, hclick, links, clicks, returned>>
               ELSE RecordFails(h)
    /\ UNCHANGED <<nextLinkId, nextClickId, cvars, hcode, hlink, hmeta, hcalls, dvars>>

\* the foreign key is declared with db_constraint=False
ForeignKeyHolds_Unchecked(ls, c) == TRUE

\* models.py:69-71: the row that the Click's short_link references exists
ForeignKeyHolds(ls, c) == \E l \in ls : l.id = c.short_link

\* services.py:126, 145: leaving the atomic block commits: the deferred
\* foreign key of the Click is checked against the links table (models.py:
\* 69-71), then both writes become visible together and the Click is
\* returned; the view answers (views.py:107-114).
RecordCommit(h) ==
    /\ Quiet
    /\ hpc[h] = "commit"
    /\ ~DeleterLocks(hlink[h].id)
    /\ \E ok \in BOOLEAN :
         IF ok /\ ForeignKeyHolds(links, hclick[h])
            THEN /\ clicks' = CommitClicks(clicks, hclick[h])
                 /\ links' = CommitLinks(links, hlink[h], hlock[h])
                 /\ hrec' = [hrec EXCEPT ![h] = "Click"]
                 /\ returned' = returned \cup {hclick[h]}
                 /\ hresp' = [hresp EXCEPT ![h] = RedirectResponse(hlink[h], "Click")]
                 /\ hpc' = [hpc EXCEPT ![h] = "done"]
                 /\ hclick' = [hclick EXCEPT ![h] = NoClick]
                 /\ hlock' = [hlock EXCEPT ![h] = FALSE]
            ELSE RecordFails(h)
    /\ UNCHANGED <<nextLinkId, nextClickId, cvars, hcode, hlink, hmeta, hcalls, dvars>>

\* the response is sent; the request ends and its locals are gone
RedirectReturn(h) ==
    /\ hpc[h] = "done"
    /\ hpc' = [hpc EXCEPT ![h] = "idle"]
    /\ hcode' = [hcode EXCEPT ![h] = ""]
    /\ hlink' = [hlink EXCEPT ![h] = NoLink]
    /\ hmeta' = [hmeta EXCEPT ![h] = NoMeta]
    /\ hcalls' = [hcalls EXCEPT ![h] = 0]
    /\ hrec' = [hrec EXCEPT ![h] = "none"]
    /\ hresp' = [hresp EXCEPT ![h] = NoResponse]
    /\ UNCHANGED <<dbvars, cvars, hclick, hlock, returned, dvars>>

\* ---------------------------------------------------------- DeleteLinkView
\* views.py:191: self.get_object()
DeleteGet(l) ==
    /\ Quiet
    /\ dpc = "idle"
    /\ l \in links
    /\ dlink' = l
    /\ dpc' = "clicks"
    /\ UNCHANGED <<dbvars, cvars, hvars, ddel>>

\* the delete removes the Click rows without a filter on the link
Cascade_All(cs, l) == cs

\* models.py:69-71 (on_delete=CASCADE): the Click rows that reference l
Cascade(cs, l) == {k \in cs : k.short_link = l.id}

\* views.py:194: the delete opens a transaction and first deletes the Click
\* rows that reference the link
DeleteClicks ==
    /\ dpc = "clicks"
    /\ ddel' = Cascade(clicks, dlink)
    /\ dpc' = "link"
    /\ UNCHANGED <<dbvars, cvars, hvars, dlink>>

\* views.py:194: DELETE FROM links_shortlink WHERE id = pk; waits for the
\* row lock
DeleteLink ==
    /\ Quiet
    /\ dpc = "link"
    /\ ~HandlerLocks(dlink.id)
    /\ dpc' = "commit"
    /\ UNCHANGED <<dbvars, cvars, hvars, dlink, ddel>>

\* the commit checks that no Click row still references the deleted link; a
\* Click committed after DeleteClicks makes it fail and roll back
DeleteCommit ==
    /\ Quiet
    /\ dpc = "commit"
    /\ IF Cascade(clicks, dlink) \subseteq ddel
          THEN /\ links' = links \ ByPk(dlink.id)
               /\ clicks' = clicks \ ddel
               /\ returned' = returned \ Cascade(returned, dlink)
          ELSE UNCHANGED <<links, clicks, returned>>
    /\ dpc' = "idle"
    /\ dlink' = NoLink
    /\ ddel' = {}
    /\ UNCHANGED <<nextLinkId, nextClickId, cvars, hpc, hcode, hlink, hmeta, hclick,
                   hlock, hcalls, hrec, hresp>>

\* ------------------------------------------------------------------ system
\* Two concurrent submitters, one visitor and the administrator.
Visitor == {"h1"}

Next ==
    \/ \E p \in Creators, u \in Urls : CreateCall(p, u)
    \/ \E p \in Creators : CreateCheck(p)
    \/ \E p \in Creators : CreateAttempt(p)
    \/ \E p \in Creators : CreateExhausted(p)
    \/ \E p \in Creators : CreateReturn(p)
    \/ \E h \in Visitor, c \in RequestCodes : RedirectGet(h, c, DirectMeta)
    \/ \E h \in Visitor : RecordInsert(h)
    \/ \E h \in Visitor : RecordUpdate(h)
    \/ \E h \in Visitor : RecordCommit(h)
    \/ \E h \in Visitor : RedirectReturn(h)
    \/ \E l \in links : DeleteGet(l)
    \/ DeleteClicks
    \/ DeleteLink
    \/ DeleteCommit

Spec == Init /\ [][Next]_vars

\* Two concurrent submitters and the administrator; nobody visits.
NextAlloc ==
    \/ \E p \in Creators, u \in Urls : CreateCall(p, u)
    \/ \E p \in Creators : CreateCheck(p)
    \/ \E p \in Creators : CreateAttempt(p)
    \/ \E p \in Creators : CreateExhausted(p)
    \/ \E p \in Creators : CreateReturn(p)
    \/ \E l \in links : DeleteGet(l)
    \/ DeleteClicks
    \/ DeleteLink
    \/ DeleteCommit

SpecAlloc == Init /\ [][NextAlloc]_vars

\* Concurrent visitors of one link, the administrator who deletes it and one
\* submitter who (re)creates it.
PopularUrl == MkUrl("https://", "example.com", "a")

NextClicks ==
    \/ \E p \in {"c1"} : CreateCall(p, PopularUrl)
    \/ \E p \in {"c1"} : CreateCheck(p)
    \/ \E p \in {"c1"} : CreateAttempt(p)
    \/ \E p \in {"c1"} : CreateReturn(p)
    \/ \E h \in Handlers, c \in RequestCodes : RedirectGet(h, c, DirectMeta)
    \/ \E h \in Handlers : RecordInsert(h)
    \/ \E h \in Handlers : RecordUpdate(h)
    \/ \E h \in Handlers : RecordCommit(h)
    \/ \E h \in Handlers : RedirectReturn(h)
    \/ \E l \in links : DeleteGet(l)
    \/ DeleteClicks
    \/ DeleteLink
    \/ DeleteCommit

SpecClicks == Init /\ [][NextClicks]_vars

\* One submitter of several URLs, one visitor and the administrator.
NextAdmin ==
    \/ \E p \in {"c1"}, u \in ValidUrls : CreateCall(p, u)
    \/ \E p \in {"c1"} : CreateCheck(p)
    \/ \E p \in {"c1"} : CreateAttempt(p)
    \/ \E p \in {"c1"} : CreateExhausted(p)
    \/ \E p \in {"c1"} : CreateReturn(p)
    \/ \E h \in Visitor, c \in RequestCodes : RedirectGet(h, c, DirectMeta)
    \/ \E h \in Visitor : RecordInsert(h)
    \/ \E h \in Visitor : RecordUpdate(h)
    \/ \E h \in Visitor : RecordCommit(h)
    \/ \E h \in Visitor : RedirectReturn(h)
    \/ \E l \in links : DeleteGet(l)
    \/ DeleteClicks
    \/ DeleteLink
    \/ DeleteCommit

SpecAdmin == Init /\ [][NextAdmin]_vars

\* One visitor who sends any headers, directly or through proxies, and one
\* submitter of the link.
NextMeta ==
    \/ \E p \in {"c1"} : CreateCall(p, PopularUrl)
    \/ \E p \in {"c1"} : CreateCheck(p)
    \/ \E p \in {"c1"} : CreateAttempt(p)
    \/ \E p \in {"c1"} : CreateReturn(p)
    \/ \E h \in Visitor, c \in Codes, m \in Metas : RedirectGet(h, c, m)
    \/ \E h \in Visitor : RecordInsert(h)
    \/ \E h \in Visitor : RecordUpdate(h)
    \/ \E h \in Visitor : RecordCommit(h)
    \/ \E h \in Visitor : RedirectReturn(h)

SpecMeta == Init /\ [][NextMeta]_vars

TypeOK ==
    /\ \A l \in links : l.id \in 1..MaxLinkId /\ l.original_url \in ValidUrls
    /\ \A k \in clicks : k.id \in 1..MaxClickId
    /\ \A p \in Creators : attempt[p] \in 0..max_retries

\* ================================================================== claims

\* ---- C1 -----------------------------------------------------------------
\* C1: a create_link call whose existence query finds a row for its URL
\* returns exactly that row (same id, same short_code), has made no insert
\* attempt and drawn no code, and leaves the table as it was, with one row
\* for the URL.
C1_DedupIdempotent ==
    [][\A p \in Creators :
          (cpc[p] = "check" /\ cpc'[p] # "check" /\ ByUrl(curl[p]) # {})
          => /\ cpc'[p] = "done"
             /\ cret'[p].kind = "link"
             /\ cret'[p].link \in ByUrl(curl[p])
             /\ attempt'[p] = 0
             /\ ~cwrote'[p]
             /\ links' = links
             /\ nextLinkId' = nextLinkId
             /\ Cardinality(ByUrl(curl[p])) = 1]_vars

\* a call returned an existing row through the existence query
C1_Witness ==
    \E p \in Creators :
        /\ cpc[p] = "done"
        /\ cret[p].kind = "link"
        /\ cchecked[p] /\ ~cwrote[p] /\ attempt[p] = 0
        /\ cret[p].link \in links

\* ---- C2 -----------------------------------------------------------------
\* C2: a create_link call one of whose inserts hit the original_url
\* uniqueness violation (a concurrent writer inserted the URL after the
\* call's existence query) ends by returning a link, never with an error.
C2_RaceRecovered ==
    \A p \in Creators :
        (cpc[p] = "done" /\ curlviol[p]) => cret[p].kind = "link"

\* ---- C3 -----------------------------------------------------------------
\* C3: no two committed ShortLink rows share an original_url, and no two
\* share a short_code.
C3_Unique ==
    \A l1 \in links, l2 \in links :
        (l1.original_url = l2.original_url \/ l1.short_code = l2.short_code)
        => l1 = l2

\* the insert of a caller that passed the existence query was refused
\* because another caller had stored the URL meanwhile
C3_Witness ==
    \E p \in Creators :
        /\ cpc[p] = "done" /\ curlviol[p]
        /\ Cardinality(ByUrl(curl[p])) = 1

\* ---- C4 -----------------------------------------------------------------
\* C4: for every link, clicks_count is the number of record_click calls on
\* it that returned a Click, and the Click rows that reference it are
\* exactly the returned ones: concurrent calls lose no increment.
C4_NoLostClicks ==
    \A l \in links :
        /\ l.clicks_count = Cardinality(Cascade(returned, l))
        /\ Cascade(clicks, l) = Cascade(returned, l)

\* a call that looked the link up at count 0 returns its Click and the count
\* is 2: another call committed between its lookup and its commit
C4_Witness ==
    \E h \in Handlers :
        /\ hpc[h] = "done" /\ hrec[h] = "Click"
        /\ hlink[h].clicks_count = 0
        /\ \E l \in ByPk(hlink[h].id) : l.clicks_count = 2

\* ---- C5 -----------------------------------------------------------------
\* C5: in every committed state each link's clicks_count is the number of
\* committed Click rows that reference it.
C5_CounterMatchesRows ==
    \A l \in links : l.clicks_count = Cardinality({k \in clicks : k.short_link = l.id})

\* record_click failed after its Click insert (the id was drawn) and nothing
\* of the transaction is stored
C5_Witness ==
    \E h \in Handlers :
        /\ hpc[h] = "done" /\ hrec[h] = "None"
        /\ ByPk(hlink[h].id) # {}
        /\ nextClickId = 2 /\ clicks = {}
        /\ \A g \in Handlers \ {h} : hpc[g] = "idle"

\* ---- C6 -----------------------------------------------------------------
\* C6: record_click never raises: a request that called it has "Click" or
\* "None" as its result, and "Click" only with the Click row committed.
C6_NeverRaises ==
    \A h \in Handlers :
        /\ hrec[h] # "raised"
        /\ (hpc[h] = "done" /\ hcalls[h] > 0) => hrec[h] \in {"Click", "None"}
        /\ (hpc[h] = "done" /\ hrec[h] = "Click")
           => \E k \in clicks : k.short_link = hlink[h].id

\* record_click failed and returned None
C6_Witness ==
    \E h \in Handlers : hpc[h] = "done" /\ hcalls[h] = 1 /\ hrec[h] = "None"

\* ---- C7 -----------------------------------------------------------------
\* C7: a request whose lookup found a link answers 302 with that link's
\* original_url, whether record_click returned a Click or failed.
C7_RedirectRegardless ==
    \A h \in Handlers :
        (hpc[h] = "done" /\ hlink[h] # NoLink)
        => /\ hlink[h].short_code = hcode[h]
           /\ hresp[h].status = 302
           /\ hresp[h].location = hlink[h].original_url

\* a redirect was answered although click recording failed
C7_Witness ==
    \E h \in Handlers :
        /\ hpc[h] = "done" /\ hrec[h] = "None" /\ hcalls[h] = 1
        /\ hresp[h].status = 302
        /\ hresp[h].location \in ValidUrls

\* ---- C8 -----------------------------------------------------------------
\* C8: a GET for a code that no stored link holds answers 404 at once,
\* without calling record_click and without changing any table.
C8_UnknownCodeNoEffect ==
    [][\A h \in Handlers :
          (hpc[h] = "idle" /\ hpc'[h] # "idle" /\ ByCode(hcode'[h]) = {})
          => /\ hpc'[h] = "done"
             /\ hresp'[h].status = 404
             /\ hcalls'[h] = 0
             /\ hrec'[h] = "none"
             /\ links' = links
             /\ clicks' = clicks
             /\ nextClickId' = nextClickId]_vars

\* a 404 was answered for a code generate_short_code can draw, while links
\* and clicks are stored
C8_Witness ==
    \E h \in Handlers :
        /\ hpc[h] = "done" /\ hresp[h].status = 404
        /\ hcode[h] \in Codes
        /\ links # {} /\ clicks # {}

\* ---- C9 -----------------------------------------------------------------
\* the URLs the claim names: not starting with http:// or https://, or
\* naming localhost (in any letter case) or 127.0.0.1
NamedRejected(u) ==
    \/ u.scheme \notin {"http://", "https://"}
    \/ \E part \in {u.host, u.path} : part \in {"localhost", "LocalHost", "127.0.0.1"}

\* C9: a create_link call with such a URL ends with ValidationError before
\* its existence query and before any insert attempt, writes no row, and no
\* stored row ever holds such a URL.
C9_RejectedWritesNothing ==
    /\ \A p \in Creators :
          (cpc[p] # "idle" /\ NamedRejected(curl[p]))
          => /\ cpc[p] = "done"
             /\ cret[p].kind = "ValidationError"
             /\ ~cchecked[p]
             /\ attempt[p] = 0
             /\ ~cwrote[p]
    /\ \A l \in links : ~NamedRejected(l.original_url)

\* a localhost URL in mixed case was rejected while a row is stored
C9_Witness ==
    \E p \in Creators :
        /\ cpc[p] = "done" /\ cret[p].kind = "ValidationError"
        /\ curl[p].host = "LocalHost"
        /\ links # {}

\* ---- C10 ----------------------------------------------------------------
\* C10: a call makes at most 10 insert attempts; a call that ends with
\* RuntimeError made exactly 10 and inserted nothing; and a call whose 10
\* attempts all failed on short_code ends with RuntimeError.
C10_BoundedAllocation ==
    \A p \in Creators :
        /\ attempt[p] <= 10
        /\ (cpc[p] = "done" /\ cret[p].kind = "RuntimeError")
           => (attempt[p] = 10 /\ ~cwrote[p])
        /\ (cpc[p] = "done" /\ attempt[p] = 10 /\ ~cwrote[p] /\ ~curlviol[p])
           => cret[p].kind = "RuntimeError"

\* a call failed with RuntimeError after ten short_code collisions
C10_Witness ==
    \E p \in Creators :
        /\ cpc[p] = "done" /\ cret[p].kind = "RuntimeError"
        /\ attempt[p] = 10 /\ ~curlviol[p]
        /\ ByUrl(curl[p]) = {}

\* ---- C11 ----------------------------------------------------------------
\* C11: an insert attempt of a call whose URL has no row either collides on
\* short_code, and then the call stays in its loop with no error and no
\* table change, or draws an unused code, and then the call returns a new
\* link (clicks_count 0, a fresh id) carrying that code, stored next to the
\* unchanged other rows.  Only the attempts 1..10 exist.
C11_CollisionRetried ==
    [][\A p \in Creators :
          (cpc[p] = "insert" /\ attempt'[p] = attempt[p] + 1 /\ ByUrl(curl[p]) = {})
          => /\ attempt'[p] <= 10
             /\ \/ /\ links' = links
                   /\ cpc'[p] = "insert"
                   /\ cret'[p] = NoRet
                   /\ ~cwrote'[p]
                \/ /\ cpc'[p] = "done"
                   /\ cret'[p].kind = "link"
                   /\ cret'[p].link.original_url = curl[p]
                   /\ cret'[p].link.clicks_count = 0
                   /\ ByCode(cret'[p].link.short_code) = {}
                   /\ ByPk(cret'[p].link.id) = {}
                   /\ links' = links \cup {cret'[p].link}]_vars

\* a call returned a new link from its tenth attempt, after nine collisions
\* with the code of the other stored link
C11_Witness ==
    \E p \in Creators :
        /\ cpc[p] = "done" /\ cret[p].kind = "link"
        /\ cwrote[p] /\ ~curlviol[p] /\ attempt[p] = 10
        /\ cret[p].link \in links
        /\ \E l \in links : l # cret[p].link /\ l.clicks_count = 0

\* ---- C12 ----------------------------------------------------------------
\* C12: the step that removes a ShortLink row removes that row only, leaves
\* no Click row that references it, and leaves every other ShortLink row
\* (its clicks_count included) and the Click rows of every other ShortLink
\* as they were.
C12_CascadeDelete ==
    [][\A l \in links :
          (\A n \in links' : n.id # l.id)
          => /\ links' = links \ {l}
             /\ \A k \in clicks' : k.short_link # l.id
             /\ \A o \in links \ {l} :
                   {k \in clicks' : k.short_link = o.id}
                   = {k \in clicks : k.short_link = o.id}]_vars

\* of the two links created, one was deleted and one of the two Click ids
\* went with it; the other link still has its Click and its count of 1
C12_Witness ==
    /\ dpc = "idle"
    /\ nextLinkId = 3 /\ nextClickId = 3
    /\ Cardinality(links) = 1 /\ Cardinality(clicks) = 1
    /\ \A l \in links : l.clicks_count = 1
    /\ \A k \in clicks : ByPk(k.short_link) # {}

\* ---- C13 ----------------------------------------------------------------
\* C13: a row that enters the table has clicks_count 0; in any step a stored
\* row keeps its clicks_count or gains exactly 1, and it gains 1 only in the
\* step in which a record_click call on that link returns its Click; every
\* such return raises the count of its link by 1; and no step of create_link
\* (existence query, insert attempt, return) and no lookup of the redirect
\* handler changes or removes a stored row.
C13_CounterOwnedByRecorder ==
    [][/\ \A n \in links' : ByPk(n.id) = {} => n.clicks_count = 0
       /\ \A l \in links, n \in links' :
             n.id = l.id
             => \/ n.clicks_count = l.clicks_count
                \/ /\ n.clicks_count = l.clicks_count + 1
                   /\ \E h \in Handlers :
                         /\ hpc[h] = "commit" /\ hrec'[h] = "Click"
                         /\ hlink[h].id = l.id
       /\ \A h \in Handlers :
             (hpc[h] = "commit" /\ hrec'[h] = "Click")
             => \E l \in links, n \in links' :
                   /\ l.id = hlink[h].id /\ n.id = l.id
                   /\ n.clicks_count = l.clicks_count + 1
       /\ ((\E p \in Creators : cpc'[p] # cpc[p])
            \/ (\E h \in Handlers : hpc[h] = "idle" /\ hpc'[h] # "idle"))
          => \A l \in links : l \in links']_vars

\* create_link returned, through its existence query, a link that two
\* recorded clicks had raised to 2, and the row still stands at 2
C13_Witness ==
    \E p \in Creators :
        /\ cpc[p] = "done" /\ cret[p].kind = "link"
        /\ cchecked[p] /\ ~cwrote[p]
        /\ cret[p].link \in links
        /\ cret[p].link.clicks_count = 2
        /\ Cardinality(clicks) = 2

\* ---- C14 ----------------------------------------------------------------
\* the host of the URL contains localhost (in any letter case) or 127.0.0.1
HostNamesLocalhost(u) ==
    \/ "localhost" \in Fragments(Lower(u.host))
    \/ "127.0.0.1" \in Fragments(u.host)

\* C14: a create_link call with a syntactically valid http/https URL whose
\* host names neither localhost nor 127.0.0.1 does not end with
\* ValidationError, whatever its path contains, and a call with a URL whose
\* host names one of them ends with ValidationError.
C14_HostDecides ==
    \A p \in Creators :
        cpc[p] # "idle"
        => /\ (StartsWithHttp(curl[p]) /\ URLValidator(curl[p])
                /\ ~HostNamesLocalhost(curl[p]))
              => cret[p].kind # "ValidationError"
           /\ HostNamesLocalhost(curl[p])
              => (cpc[p] = "done" /\ cret[p].kind = "ValidationError")

\* ---- C15 ----------------------------------------------------------------
\* ip is the string t with the whitespace at both ends removed
IsTrimOf(ip, t) ==
    \E b \in 0..Len(t), e \in 0..Len(t) :
        /\ b <= e
        /\ ip = SubSeq(t, b + 1, e)
        /\ \A i \in 1..b : t[i] = " "
        /\ \A i \in (e + 1)..Len(t) : t[i] = " "
        /\ ip # <<>> => (ip[1] # " " /\ ip[Len(ip)] # " ")

\* ip is the first comma-separated entry of s, trimmed
IsFirstEntryTrimmed(ip, s) ==
    \E f \in 0..Len(s) :
        /\ \A i \in 1..f : s[i] # ","
        /\ f = Len(s) \/ s[f + 1] = ","
        /\ IsTrimOf(ip, SubSeq(s, 1, f))

\* C15 as stated: every Click row that is stored carries the trimmed first
\* entry of the X-Forwarded-For header of its request whenever the request
\* has that header, and the peer address of the request otherwise.
C15_FirstEntryWhenPresent ==
    [][\A k \in clicks' \ clicks :
          \E h \in Handlers :
              /\ hpc[h] = "commit" /\ hclick[h] = k
              /\ IF hmeta[h].HTTP_X_FORWARDED_FOR.present
                    THEN /\ k.ip_address.present
                         /\ IsFirstEntryTrimmed(k.ip_address.value,
                                                hmeta[h].HTTP_X_FORWARDED_FOR.value)
                    ELSE k.ip_address = hmeta[h].REMOTE_ADDR]_vars

\* C15, amended: every Click row that is stored carries the trimmed first
\* entry of the X-Forwarded-For header of its request whenever the request
\* has that header with a value that is not the empty string, and the peer
\* address of the request otherwise (no header, or an empty one); an entry
\* after the first comma never decides the stored address.
C15_FirstEntryWhenNonEmpty ==
    [][\A k \in clicks' \ clicks :
          \E h \in Handlers :
              /\ hpc[h] = "commit" /\ hclick[h] = k
              /\ IF /\ hmeta[h].HTTP_X_FORWARDED_FOR.present
                    /\ hmeta[h].HTTP_X_FORWARDED_FOR.value # <<>>
                    THEN /\ k.ip_address.present
                         /\ IsFirstEntryTrimmed(k.ip_address.value,
                                                hmeta[h].HTTP_X_FORWARDED_FOR.value)
                    ELSE k.ip_address = hmeta[h].REMOTE_ADDR]_vars

\* a Click is stored with the address "a" for a request whose header was
\* " a," (whitespace, the client, a comma), and another with the peer
\* address for a request without the header
C15_Witness ==
    \E h \in Handlers :
        /\ hpc[h] = "done" /\ hrec[h] = "Click"
        /\ hmeta[h].HTTP_X_FORWARDED_FOR = Str(<<" ", "a", ",">>)
        /\ \E k \in clicks : k.ip_address = Str(<<"a">>)
        /\ \E k \in clicks : k.ip_address = Str(<<"a", "a">>)

\* ---- C16 ----------------------------------------------------------------
\* C16: after every step each stored Click references a stored ShortLink;
\* no step stores a ShortLink row under an id that was issued before and is
\* not stored now (a deleted row does not come back); and a request whose
\* link is gone when its record_click ends gets None from it, stores
\* nothing, and answers 302 with the original_url it looked up.
C16_NoOrphanClicks ==
    [][/\ \A k \in clicks' : \E l \in links' : l.id = k.short_link
       /\ \A n \in links' : n.id < nextLinkId => \E l \in links : l.id = n.id
       /\ \A h \in Handlers :
             (/\ hpc[h] \in {"record", "update", "commit"}
              /\ hpc'[h] = "done"
              /\ \A l \in links : l.id # hlink[h].id)
             => /\ hrec'[h] = "None"
                /\ hresp'[h].status = 302
                /\ hresp'[h].location = hlink[h].original_url
                /\ clicks' = clicks
                /\ links' = links]_vars

\* the link was deleted after the lookup of a request: its record_click had
\* inserted its Click, returned None, nothing is stored, and the request
\* answers 302
C16_Witness ==
    \E h \in Handlers :
        /\ hpc[h] = "done" /\ hcalls[h] = 1 /\ hrec[h] = "None"
        /\ hlink[h] # NoLink
        /\ \A l \in links : l.id # hlink[h].id
        /\ nextClickId = 2 /\ clicks = {}
        /\ hresp[h] = MkResponse(302, hlink[h].original_url)

====
